---------------------------- MODULE Spec2Model ----------------------------
(***************************************************************************)
(* IndexedDBWrapper (src/idb.js): a promise wrapper over one IndexedDB     *)
(* object store holding {date, sum, category} records, with yearly and     *)
(* monthly category reports.                                               *)
(*                                                                         *)
(* The wrapper's own state is this.version, this.upgradeCallback, this.db. *)
(* The host (IndexedDB) is modelled by what the wrapper relies on: a       *)
(* versioned database, one object store with key path `id` and a key       *)
(* generator (the store the doc comment of addOrUpdate describes), and     *)
(* requests that are served in the order they were issued and end in a     *)
(* success or an error event.  `last` records the most recently settled    *)
(* promise of the page.                                                    *)
(***************************************************************************)
EXTENDS Integers, Sequences, FiniteSets

----------------------------------------------------------------------------
(* Bounds *)

\* largest key the key generator hands out in the model
MaxKey == 2
\* largest number of records in a store the reports are examined on
MaxStored == 3
\* largest number of store requests in flight at once
MaxPending == 1
\* largest number of open requests in flight at once
MaxOpening == 1
\* largest database version a page asks for
MaxVersion == 2

----------------------------------------------------------------------------
(* JavaScript numbers: an integer or NaN *)

Num(n) == [nan |-> FALSE, n |-> n]
NaN == [nan |-> TRUE, n |-> 0]

\* a + b
Add(a, b) == IF a.nan \/ b.nan THEN NaN ELSE Num(a.n + b.n)
\* a <= 0
LeqZero(a) == ~a.nan /\ a.n <= 0
\* a === b
StrictEq(a, b) == ~a.nan /\ ~b.nan /\ a.n = b.n

----------------------------------------------------------------------------
(* Field values of a record handed to addOrUpdate *)

\* data.date: absent, '', a date-like value of calendar year y and month m
\* (1..12), or a non-empty string that is no date
NoDate == [kind |-> "undefined", y |-> 0, m |-> 0]
EmptyDate == [kind |-> "empty", y |-> 0, m |-> 0]
BadDate == [kind |-> "invalid", y |-> 0, m |-> 0]
DateOf(y, m) == [kind |-> "date", y |-> y, m |-> m]

\* data.sum: absent, a number, or a string
NoSum == [type |-> "undefined", num |-> Num(0)]
NumSum(n) == [type |-> "number", num |-> Num(n)]
NaNSum == [type |-> "number", num |-> NaN]
StrSum(n) == [type |-> "string", num |-> Num(n)]

\* data.category: absent, a string, or a number
NoCat == [type |-> "undefined", str |-> ""]
StrCat(s) == [type |-> "string", str |-> s]
NumCat == [type |-> "number", str |-> "5"]

Rec(d, s, c) == [date |-> d, sum |-> s, category |-> c]

\* records handed to addOrUpdate that pass its checks
ValidRecords ==
    { Rec(DateOf(2023, 1), NumSum(10), StrCat("food")),
      Rec(DateOf(2023, 6), NaNSum, StrCat("travel")) }

\* records that fail one of them
InvalidRecords ==
    { Rec(NoDate, NumSum(10), StrCat("food")),
      Rec(EmptyDate, NumSum(10), StrCat("food")),
      Rec(DateOf(2023, 1), NoSum, StrCat("food")),
      Rec(DateOf(2023, 1), StrSum(10), StrCat("food")),
      Rec(DateOf(2023, 1), NumSum(0), StrCat("food")),
      Rec(DateOf(2023, 1), NumSum(-5), StrCat("food")),
      Rec(DateOf(2023, 1), NumSum(10), NoCat),
      Rec(DateOf(2023, 1), NumSum(10), StrCat("")),
      Rec(DateOf(2023, 1), NumSum(10), NumCat) }

\* the `id` a caller leaves on the object; 0: the object has no `id`
IdInputs == {0, 1}

WithId(r, i) ==
    [date |-> r.date, sum |-> r.sum, category |-> r.category, id |-> i]

DataInputs ==
    { WithId(r, i) : r \in ValidRecords, i \in IdInputs }
        \cup { WithId(r, 0) : r \in InvalidRecords }

\* records a store is filled with when the reports are examined
ReportRecords ==
    { Rec(DateOf(2023, 1), NumSum(10), StrCat("food")),
      Rec(DateOf(2023, 6), NumSum(20), StrCat("food")),
      Rec(DateOf(2022, 1), NumSum(5), StrCat("food")),
      Rec(DateOf(2023, 1), NumSum(7), StrCat("travel")),
      Rec(BadDate, NumSum(3), StrCat("travel")),
      Rec(DateOf(2023, 6), NumSum(4), StrCat("constructor")) }

NoData == [date |-> NoDate, sum |-> NoSum, category |-> NoCat, id |-> 0]

Years == {2022, 2023}
Months == {1, 6}

\* property names every object literal inherits from Object.prototype
ObjectPrototypeKeys ==
    { "constructor", "toString", "valueOf", "hasOwnProperty", "__proto__" }


----------------------------------------------------------------------------
(* State *)

VARIABLES
    version,          \* this.version
    upgradeCallback,  \* this.upgradeCallback is set
    db,               \* this.db is a live handle (FALSE: null)
    hostVersion,      \* version of the database the host holds (0: none yet)
    storeExists,      \* the upgrade routine has created the object store
    store,            \* the object store: key -> stored record
    keyGen,           \* the store's key generator: largest key handed out
    opening,          \* open requests the host has not finished
    pending,          \* store requests the host has not finished
    last,             \* the promise settled most recently on this page
    acked             \* records whose addOrUpdate resolved, none deleted since

vars == <<version, upgradeCallback, db, hostVersion, storeExists, store, keyGen,
          opening, pending, last, acked>>

EmptyStore == [k \in {} |-> NoData]

NoResult == [kind |-> "none", report |-> <<>>]

NoCall ==
    [ op |-> "none", outcome |-> "none", err |-> "none", msg |-> "",
      data |-> NoData, key |-> 0, year |-> 0, month |-> 0,
      tx |-> FALSE, reqs |-> 0, event |-> "none", before |-> EmptyStore,
      records |-> <<>>,
      result |-> NoResult, upgraded |-> FALSE, oldVersion |-> 0,
      dbBefore |-> FALSE ]

\* a store request in flight, with the call that issued it: data is the
\* object the caller passed, payload the value handed to put
Request(op, data, payload, key, year, month) ==
    [ op |-> op, data |-> data, payload |-> payload, key |-> key,
      year |-> year, month |-> month, attempt |-> 1 ]

\* the promise of the call behind req, settled
Settled(req, outcome, err, msg) ==
    [NoCall EXCEPT !.op = req.op, !.outcome = outcome, !.err = err,
                   !.msg = msg, !.data = req.data, !.key = req.key,
                   !.year = req.year, !.month = req.month,
                   !.tx = TRUE, !.reqs = req.attempt]

\* the promise of a call that threw or rejected before any request
Refused(op, data, key, year, month, err, msg) ==
    [NoCall EXCEPT !.op = op, !.outcome = "rejected", !.err = err,
                   !.msg = msg, !.data = data, !.key = key,
                   !.year = year, !.month = month, !.before = store]

----------------------------------------------------------------------------
(* constructor *)

\* A page's first load: the wrapper is constructed for the first version of
\* the schema, with or without an upgrade routine, and no database exists.
Init ==
    /\ version = 1
    /\ upgradeCallback \in BOOLEAN
    /\ db = FALSE
    /\ hostVersion = 0
    /\ storeExists = FALSE
    /\ store = EmptyStore
    /\ keyGen = 0
    /\ opening = <<>>
    /\ pending = <<>>
    /\ last = NoCall
    /\ acked = {}

\* The page is loaded again and constructs a new wrapper: the host closes
\* the old connection and aborts what was in flight on it, an unfinished
\* upgrade included.
Reload ==
    \E v \in 1..MaxVersion, cb \in BOOLEAN :
        /\ version' = v
        /\ upgradeCallback' = cb
        /\ db' = FALSE
        /\ IF opening # <<>> /\ Head(opening).phase = "upgrading"
           THEN /\ hostVersion' = Head(opening).oldVersion
                /\ storeExists' = Head(opening).oldExists
           ELSE UNCHANGED <<hostVersion, storeExists>>
        /\ opening' = <<>>
        /\ pending' = <<>>
        /\ last' = NoCall
        /\ UNCHANGED <<store, keyGen, acked>>

----------------------------------------------------------------------------
(* open *)

\* indexedDB.open(this.dbName, this.version)
Open ==
    /\ Len(opening) < MaxOpening
    /\ opening' = Append(opening,
                    [ phase |-> "requested", version |-> version,
                      upgraded |-> FALSE, oldVersion |-> 0,
                      oldExists |-> FALSE ])
    /\ UNCHANGED <<acked, version, upgradeCallback, db, hostVersion, storeExists,
                   store, keyGen, pending, last>>

\* request.onupgradeneeded: the upgrade routine, when there is one, is run
OnUpgradeNeeded(req) == [req EXCEPT !.upgraded = upgradeCallback]

\* OnOpenSuccess that resolves without caching the handle
OnOpenSuccess_NoCache(req) ==
    [ db |-> db,
      last |-> [NoCall EXCEPT !.op = "open", !.outcome = "resolved",
                              !.upgraded = req.upgraded,
                              !.oldVersion = req.oldVersion,
                              !.dbBefore = db] ]

\* request.onsuccess of open: the handle is cached and the promise resolves
OnOpenSuccess(req) ==
    [ db |-> TRUE,
      last |-> [NoCall EXCEPT !.op = "open", !.outcome = "resolved",
                              !.upgraded = req.upgraded,
                              !.oldVersion = req.oldVersion,
                              !.dbBefore = db] ]

\* request.onerror of open: the promise rejects, this.db is not assigned
OnOpenError(req) ==
    [ db |-> db,
      last |-> [NoCall EXCEPT !.op = "open", !.outcome = "rejected",
                              !.err = "OpenError",
                              !.msg = "Failed to open DB",
                              !.upgraded = req.upgraded,
                              !.oldVersion = req.oldVersion,
                              !.dbBefore = db] ]

\* The host finds the requested version above the stored one (0 when the
\* database does not exist), starts the upgrade and fires upgradeneeded;
\* the upgrade routine creates the object store.
HostUpgradeNeeded ==
    /\ opening # <<>>
    /\ Head(opening).phase = "requested"
    /\ Head(opening).version > hostVersion
    /\ LET req == OnUpgradeNeeded(Head(opening))
       IN  /\ opening' = <<[req EXCEPT !.phase = "upgrading",
                                       !.oldVersion = hostVersion,
                                       !.oldExists = storeExists]>>
                         \o Tail(opening)
           /\ storeExists' = (storeExists \/ req.upgraded)
    /\ hostVersion' = Head(opening).version
    /\ UNCHANGED <<acked, version, upgradeCallback, db, store, keyGen, pending, last>>

\* The host fires success: after the upgrade, or at once when the requested
\* version is the stored one.
HostOpenSuccess ==
    /\ opening # <<>>
    /\ \/ Head(opening).phase = "upgrading"
       \/ /\ Head(opening).phase = "requested"
          /\ Head(opening).version = hostVersion
    /\ LET req == IF Head(opening).phase = "upgrading" THEN Head(opening)
                  ELSE [Head(opening) EXCEPT !.oldVersion = hostVersion,
                                             !.oldExists = storeExists]
           r == OnOpenSuccess(req)
       IN  /\ db' = r.db
           /\ last' = r.last
    /\ opening' = Tail(opening)
    /\ UNCHANGED <<acked, version, upgradeCallback, hostVersion, storeExists, store,
                   keyGen, pending>>

\* The host fires error: the requested version is below the stored one, or
\* the open or the upgrade failed; a failed upgrade is rolled back.
HostOpenError ==
    /\ opening # <<>>
    /\ LET req == IF Head(opening).phase = "upgrading" THEN Head(opening)
                  ELSE [Head(opening) EXCEPT !.oldVersion = hostVersion,
                                             !.oldExists = storeExists]
           r == OnOpenError(req)
       IN  /\ db' = r.db
           /\ last' = r.last
           /\ hostVersion' = req.oldVersion
           /\ storeExists' = req.oldExists
    /\ opening' = Tail(opening)
    /\ UNCHANGED <<acked, version, upgradeCallback, store, keyGen, pending>>

----------------------------------------------------------------------------
(* The host's object store: key path `id`, key generator *)

\* store.put(value): the key is the value's id when it has one, else the
\* next key of the generator, which the host writes into the value's id;
\* a record already under that key is replaced
HostPut(st, kg, value) ==
    LET k == IF value.id # 0 THEN value.id ELSE kg + 1
        r == [date |-> value.date, sum |-> value.sum,
              category |-> value.category]
    IN  [ store |-> [j \in DOMAIN st \cup {k} |-> IF j = k THEN r ELSE st[j]],
          keyGen |-> IF k > kg THEN k ELSE kg ]

\* HostDelete as store.clear() would do it
HostDelete_Clear(st, key) == [j \in {} |-> st[j]]

\* store.delete(key): the record under key, if any, is removed
HostDelete(st, key) == [j \in DOMAIN st \ {key} |-> st[j]]

\* store.getAll(): the records in ascending key order, each with its id
RECURSIVE HostGetAllFrom(_, _)
HostGetAllFrom(st, keys) ==
    IF keys = {} THEN <<>>
    ELSE LET k == CHOOSE x \in keys : \A y \in keys : x <= y
         IN  <<[id |-> k, date |-> st[k].date, sum |-> st[k].sum,
                category |-> st[k].category]>>
             \o HostGetAllFrom(st, keys \ {k})

HostGetAll(st) == HostGetAllFrom(st, DOMAIN st)

\* this.db.transaction(storeName, mode) throws: this.db is null (open has
\* not succeeded on this page), or the database has no such object store
TransactionThrows ==
    IF ~db THEN "TypeError"
    ELSE IF ~storeExists THEN "NotFoundError"
    ELSE "none"

----------------------------------------------------------------------------
(* addOrUpdate *)

\* Validate without the `data.sum <= 0` test
Validate_NoSignTest(data) ==
    IF data.date.kind \in {"undefined", "empty"}
    THEN "The date field is required."
    ELSE IF data.sum.type # "number"
    THEN "The sum field is required and must be a positive number."
    ELSE IF \/ data.category.type = "undefined"
            \/ (data.category.type = "string" /\ data.category.str = "")
            \/ data.category.type # "string"
    THEN "The category field is required and must be a string."
    ELSE ""

\* the three checks, in the order of the code; "" when all pass
Validate(data) ==
    IF data.date.kind \in {"undefined", "empty"}
    THEN "The date field is required."
    ELSE IF data.sum.type # "number" \/ LeqZero(data.sum.num)
    THEN "The sum field is required and must be a positive number."
    ELSE IF \/ data.category.type = "undefined"
            \/ (data.category.type = "string" /\ data.category.str = "")
            \/ data.category.type # "string"
    THEN "The category field is required and must be a string."
    ELSE ""

\* StripId that leaves the id on the object
StripId_Keep(data) == data

\* if ('id' in data) delete data.id
StripId(data) == [data EXCEPT !.id = 0]

\* puts issued and not yet served
PendingPuts == Cardinality({i \in DOMAIN pending : pending[i].op = "addOrUpdate"})

AddOrUpdate ==
    \E data \in DataInputs :
        \/ /\ Validate(data) # ""
           /\ last' = Refused("addOrUpdate", data, 0, 0, 0,
                              "ValidationError", Validate(data))
           /\ UNCHANGED pending
        \/ /\ Validate(data) = ""
           /\ TransactionThrows # "none"
           /\ last' = Refused("addOrUpdate", data, 0, 0, 0,
                              TransactionThrows, "")
           /\ UNCHANGED pending
        \/ /\ Validate(data) = ""
           /\ TransactionThrows = "none"
           /\ Len(pending) < MaxPending
           /\ keyGen + PendingPuts < MaxKey
           /\ pending' = Append(pending,
                            Request("addOrUpdate", data, StripId(data), 0, 0, 0))
           /\ UNCHANGED last
    /\ UNCHANGED <<acked, version, upgradeCallback, db, hostVersion, storeExists,
                   store, keyGen, opening>>

\* the acknowledged records once the promise l has settled
AckedAfter(l) ==
    IF l.op = "addOrUpdate" /\ l.outcome = "resolved"
    THEN acked \cup {Rec(l.data.date, l.data.sum, l.data.category)}
    ELSE acked

\* request.onsuccess of put
OnPutSuccess(req) ==
    Settled(req, "resolved", "none", "Data added/updated successfully")

\* OnPutError that issues the put once more before it gives up
OnPutError_Retry(req) ==
    [ settle |-> req.attempt > 1,
      last |-> Settled(req, "rejected", "StoreError",
                       "Failed to add/update data"),
      again |-> IF req.attempt > 1 THEN <<>>
                ELSE <<[req EXCEPT !.attempt = 2]>> ]

\* request.onerror of put; `again`: the requests the handler issues
OnPutError(req) ==
    [ settle |-> TRUE,
      last |-> Settled(req, "rejected", "StoreError",
                       "Failed to add/update data"),
      again |-> <<>> ]

HostPutSuccess ==
    /\ pending # <<>>
    /\ Head(pending).op = "addOrUpdate"
    /\ LET req == Head(pending)
           r == HostPut(store, keyGen, req.payload)
       IN  /\ store' = r.store
           /\ keyGen' = r.keyGen
           /\ last' = [OnPutSuccess(req) EXCEPT !.event = "success",
                                                !.before = store]
    /\ pending' = Tail(pending)
    /\ UNCHANGED <<version, upgradeCallback, db, hostVersion, storeExists,
                   opening>>
    /\ acked' = AckedAfter(last')

HostPutError ==
    /\ pending # <<>>
    /\ Head(pending).op = "addOrUpdate"
    /\ LET h == OnPutError(Head(pending))
       IN  /\ last' = IF h.settle
                      THEN [h.last EXCEPT !.event = "error", !.before = store]
                      ELSE last
           /\ pending' = Tail(pending) \o h.again
    /\ UNCHANGED <<version, upgradeCallback, db, hostVersion, storeExists,
                   store, keyGen, opening>>
    /\ acked' = AckedAfter(last')

----------------------------------------------------------------------------
(* getAll *)

GetAll ==
    /\ \/ /\ TransactionThrows # "none"
          /\ last' = Refused("getAll", NoData, 0, 0, 0, TransactionThrows, "")
          /\ UNCHANGED pending
       \/ /\ TransactionThrows = "none"
          /\ Len(pending) < MaxPending
          /\ pending' = Append(pending, Request("getAll", NoData, NoData, 0, 0, 0))
          /\ UNCHANGED last
    /\ UNCHANGED <<acked, version, upgradeCallback, db, hostVersion, storeExists,
                   store, keyGen, opening>>

\* OnGetAllSuccess that resolves with the request, not with its result
OnGetAllSuccess_NoResult(req, records) ==
    [Settled(req, "resolved", "none", "") EXCEPT !.records = <<>>]

\* request.onsuccess of getAll: resolve(event.target.result)
OnGetAllSuccess(req, records) ==
    [Settled(req, "resolved", "none", "") EXCEPT !.records = records]

\* request.onerror of getAll
OnGetAllError(req) ==
    [ settle |-> TRUE,
      last |-> Settled(req, "rejected", "StoreError", "Failed to fetch records"),
      again |-> <<>> ]

HostGetAllSuccess ==
    /\ pending # <<>>
    /\ Head(pending).op = "getAll"
    /\ last' = [OnGetAllSuccess(Head(pending), HostGetAll(store))
                    EXCEPT !.event = "success", !.before = store]
    /\ pending' = Tail(pending)
    /\ UNCHANGED <<acked, version, upgradeCallback, db, hostVersion, storeExists,
                   store, keyGen, opening>>

\* the reports attach no rejection handler: the rejection of getAll is theirs
HostGetAllError ==
    /\ pending # <<>>
    /\ Head(pending).op \in {"getAll", "getYearlyReport", "getMonthlyReport"}
    /\ LET h == OnGetAllError(Head(pending))
       IN  /\ last' = IF h.settle
                      THEN [h.last EXCEPT !.event = "error", !.before = store]
                      ELSE last
           /\ pending' = Tail(pending) \o h.again
    /\ UNCHANGED <<acked, version, upgradeCallback, db, hostVersion, storeExists,
                   store, keyGen, opening>>

----------------------------------------------------------------------------
(* delete *)

\* keys a caller asks to delete: the keys the generator can hand out,
\* whether or not a record is stored under them
KeyInputs == 1..MaxKey

Delete ==
    \E key \in KeyInputs :
        \/ /\ TransactionThrows # "none"
           /\ last' = Refused("delete", NoData, key, 0, 0, TransactionThrows, "")
           /\ UNCHANGED pending
        \/ /\ TransactionThrows = "none"
           /\ Len(pending) < MaxPending
           /\ pending' = Append(pending,
                            Request("delete", NoData, NoData, key, 0, 0))
           /\ UNCHANGED last
    /\ UNCHANGED <<acked, version, upgradeCallback, db, hostVersion, storeExists,
                   store, keyGen, opening>>

\* request.onsuccess of delete
OnDeleteSuccess(req) ==
    Settled(req, "resolved", "none", "Record deleted successfully")

\* request.onerror of delete
OnDeleteError(req) ==
    [ settle |-> TRUE,
      last |-> Settled(req, "rejected", "StoreError", "Failed to delete record"),
      again |-> <<>> ]

HostDeleteSuccess ==
    /\ pending # <<>>
    /\ Head(pending).op = "delete"
    /\ store' = HostDelete(store, Head(pending).key)
    /\ last' = [OnDeleteSuccess(Head(pending)) EXCEPT !.event = "success",
                                                      !.before = store]
    /\ pending' = Tail(pending)
    /\ UNCHANGED <<version, upgradeCallback, db, hostVersion, storeExists,
                   keyGen, opening>>
    /\ acked' = {}

HostDeleteError ==
    /\ pending # <<>>
    /\ Head(pending).op = "delete"
    /\ LET h == OnDeleteError(Head(pending))
       IN  /\ last' = IF h.settle
                      THEN [h.last EXCEPT !.event = "error", !.before = store]
                      ELSE last
           /\ pending' = Tail(pending) \o h.again
    /\ UNCHANGED <<acked, version, upgradeCallback, db, hostVersion, storeExists,
                   store, keyGen, opening>>

----------------------------------------------------------------------------
(* Reports *)

\* new Date(record.date): the local calendar fields, or an Invalid Date
NewDate(date) ==
    IF date.kind = "date"
    THEN [valid |-> TRUE, year |-> date.y, month0 |-> date.m - 1]
    ELSE [valid |-> FALSE, year |-> 0, month0 |-> 0]

GetFullYear(d) == IF d.valid THEN Num(d.year) ELSE NaN
GetMonth(d) == IF d.valid THEN Num(d.month0) ELSE NaN

\* report[c] read from an object literal: an own entry, a property
\* inherited from Object.prototype, or undefined
HasOwn(report, c) == \E i \in DOMAIN report : report[i].category = c

NewEntry(c) == [category |-> c, totalSum |-> Num(0), items |-> <<>>]

\* records.forEach of getYearlyReport, on the report built so far (the own
\* entries in insertion order).  An inherited property is truthy, so no
\* entry is created; it has no items array and items.push throws.
RECURSIVE GroupYearly(_, _)
GroupYearly(records, report) ==
    IF records = <<>> THEN [threw |-> FALSE, report |-> report]
    ELSE LET record == Head(records)
             c == record.category.str
         IN  IF ~HasOwn(report, c) /\ c \in ObjectPrototypeKeys
             THEN [threw |-> TRUE, report |-> report]
             ELSE LET init == IF ~HasOwn(report, c)
                              THEN Append(report, NewEntry(c)) ELSE report
                      next == [i \in DOMAIN init |->
                                 IF init[i].category = c
                                 THEN [init[i] EXCEPT
                                         !.totalSum = Add(@, record.sum.num),
                                         !.items = Append(@, record)]
                                 ELSE init[i]]
                  IN  GroupYearly(Tail(records), next)

\* YearlyThen with the empty-match test of getMonthlyReport
YearlyThen_MessageOnNoMatch(records, year) ==
    LET InYear(record) ==
            StrictEq(GetFullYear(NewDate(record.date)), Num(year))
        yearly == SelectSeq(records, InYear)
        g == GroupYearly(yearly, <<>>)
    IN  IF Len(records) = 0 \/ Len(yearly) = 0
        THEN [kind |-> "message", report |-> <<>>]
        ELSE IF g.threw THEN [kind |-> "throw", report |-> <<>>]
        ELSE [kind |-> "report", report |-> g.report]

\* the then-callback of getYearlyReport
YearlyThen(records, year) ==
    IF Len(records) = 0 THEN [kind |-> "message", report |-> <<>>]
    ELSE LET InYear(record) ==
                 StrictEq(GetFullYear(NewDate(record.date)), Num(year))
             g == GroupYearly(SelectSeq(records, InYear), <<>>)
         IN  IF g.threw THEN [kind |-> "throw", report |-> <<>>]
             ELSE [kind |-> "report", report |-> g.report]

\* records.forEach of getMonthlyReport
RECURSIVE GroupMonthly(_, _)
GroupMonthly(records, report) ==
    IF records = <<>> THEN [threw |-> FALSE, report |-> report]
    ELSE LET record == Head(records)
             c == record.category.str
         IN  IF ~HasOwn(report, c) /\ c \in ObjectPrototypeKeys
             THEN [threw |-> TRUE, report |-> report]
             ELSE LET init == IF ~HasOwn(report, c)
                              THEN Append(report, NewEntry(c)) ELSE report
                      next == [i \in DOMAIN init |->
                                 IF init[i].category = c
                                 THEN [init[i] EXCEPT
                                         !.totalSum = Add(@, record.sum.num),
                                         !.items = Append(@, record)]
                                 ELSE init[i]]
                  IN  GroupMonthly(Tail(records), next)

\* the then-callback of getMonthlyReport
MonthlyThen(records, month, year) ==
    IF Len(records) = 0 THEN [kind |-> "message", report |-> <<>>]
    ELSE LET InMonth(record) ==
                 /\ StrictEq(Add(GetMonth(NewDate(record.date)), Num(1)),
                             Num(month))
                 /\ StrictEq(GetFullYear(NewDate(record.date)), Num(year))
             monthly == SelectSeq(records, InMonth)
         IN  IF Len(monthly) = 0 THEN [kind |-> "message", report |-> <<>>]
             ELSE LET g == GroupMonthly(monthly, <<>>)
                  IN  IF g.threw THEN [kind |-> "throw", report |-> <<>>]
                      ELSE [kind |-> "report", report |-> g.report]

\* the promise a then-callback's outcome settles
Then(req, records, r) ==
    IF r.kind = "throw"
    THEN [Settled(req, "rejected", "TypeError", "") EXCEPT
            !.records = records, !.result = r]
    ELSE [Settled(req, "resolved", "none",
                  IF r.kind = "message" THEN "No records found" ELSE "")
            EXCEPT !.records = records, !.result = r]

GetYearlyReport ==
    \E year \in Years :
        \/ /\ TransactionThrows # "none"
           /\ last' = Refused("getYearlyReport", NoData, 0, year, 0,
                              TransactionThrows, "")
           /\ UNCHANGED pending
        \/ /\ TransactionThrows = "none"
           /\ Len(pending) < MaxPending
           /\ pending' = Append(pending,
                            Request("getYearlyReport", NoData, NoData, 0, year, 0))
           /\ UNCHANGED last
    /\ UNCHANGED <<acked, version, upgradeCallback, db, hostVersion, storeExists,
                   store, keyGen, opening>>

HostYearlySuccess ==
    /\ pending # <<>>
    /\ Head(pending).op = "getYearlyReport"
    /\ LET req == Head(pending)
           records == OnGetAllSuccess(req, HostGetAll(store)).records
       IN  last' = [Then(req, records, YearlyThen(records, req.year))
                        EXCEPT !.event = "success", !.before = store]
    /\ pending' = Tail(pending)
    /\ UNCHANGED <<acked, version, upgradeCallback, db, hostVersion, storeExists,
                   store, keyGen, opening>>

GetMonthlyReport ==
    \E month \in Months, year \in Years :
        \/ /\ TransactionThrows # "none"
           /\ last' = Refused("getMonthlyReport", NoData, 0, year, month,
                              TransactionThrows, "")
           /\ UNCHANGED pending
        \/ /\ TransactionThrows = "none"
           /\ Len(pending) < MaxPending
           /\ pending' = Append(pending,
                            Request("getMonthlyReport", NoData, NoData, 0,
                                    year, month))
           /\ UNCHANGED last
    /\ UNCHANGED <<acked, version, upgradeCallback, db, hostVersion, storeExists,
                   store, keyGen, opening>>

HostMonthlySuccess ==
    /\ pending # <<>>
    /\ Head(pending).op = "getMonthlyReport"
    /\ LET req == Head(pending)
           records == OnGetAllSuccess(req, HostGetAll(store)).records
       IN  last' = [Then(req, records, MonthlyThen(records, req.month, req.year))
                        EXCEPT !.event = "success", !.before = store]
    /\ pending' = Tail(pending)
    /\ UNCHANGED <<acked, version, upgradeCallback, db, hostVersion, storeExists,
                   store, keyGen, opening>>

----------------------------------------------------------------------------
(* Specification *)

\* one page: open and the store operations
Next ==
    \/ Open
    \/ HostUpgradeNeeded
    \/ HostOpenSuccess
    \/ HostOpenError
    \/ AddOrUpdate
    \/ HostPutSuccess
    \/ HostPutError
    \/ GetAll
    \/ HostGetAllSuccess
    \/ HostGetAllError
    \/ Delete
    \/ HostDeleteSuccess
    \/ HostDeleteError
    \/ GetYearlyReport
    \/ HostYearlySuccess
    \/ GetMonthlyReport
    \/ HostMonthlySuccess

Spec == Init /\ [][Next]_vars

\* the life cycle of the database over page loads
NextOpen ==
    \/ Reload
    \/ Open
    \/ HostUpgradeNeeded
    \/ HostOpenSuccess
    \/ HostOpenError

SpecOpen == Init /\ [][NextOpen]_vars

\* The stores a page can find: up to MaxStored records that passed the
\* checks of addOrUpdate, under keys the generator handed out (earlier
\* deletes leave gaps); open has succeeded on this page, or not yet.
ReportStores ==
    UNION { [K -> {r \in ReportRecords : Validate(WithId(r, 0)) = ""}] :
              K \in SUBSET (1..MaxStored) }

InitReport ==
    /\ version = 1
    /\ upgradeCallback = TRUE
    /\ db \in BOOLEAN
    /\ hostVersion = 1
    /\ storeExists = TRUE
    /\ store \in ReportStores
    /\ keyGen = MaxStored
    /\ opening = <<>>
    /\ pending = <<>>
    /\ last = NoCall
    /\ acked = {}

\* the reports, over every such store
NextReport ==
    \/ GetYearlyReport
    \/ HostYearlySuccess
    \/ GetMonthlyReport
    \/ HostMonthlySuccess
    \/ HostGetAllError

SpecReport == InitReport /\ [][NextReport]_vars

----------------------------------------------------------------------------
(* Claims *)

StoreOps == {"addOrUpdate", "getAll", "delete", "getYearlyReport",
             "getMonthlyReport"}

\* the stored form of the object a caller passed
Stored(data) == Rec(data.date, data.sum, data.category)

\* a record as C1 describes it: the date is missing, the sum is not of type
\* number or is <= 0, or the category is missing, empty or not a string
BadRecord(data) ==
    \/ data.date.kind = "undefined"
    \/ data.sum.type # "number"
    \/ (~data.sum.num.nan /\ data.sum.num.n <= 0)
    \/ data.category.type # "string"
    \/ data.category.str = ""

\* C1: addOrUpdate with a record whose date is missing, whose sum is not a
\* number or is <= 0, or whose category is missing, empty or not a string,
\* rejects with a ValidationError and never reaches storage: it opens no
\* transaction, issues no put (none is in flight for such a record either)
\* and leaves the store as it was.
C1_InvalidNeverReachesStorage ==
    /\ \A i \in DOMAIN pending :
           pending[i].op = "addOrUpdate" => ~BadRecord(pending[i].data)
    /\ (last.op = "addOrUpdate" /\ BadRecord(last.data)) =>
           /\ last.outcome = "rejected"
           /\ last.err = "ValidationError"
           /\ ~last.tx
           /\ last.reqs = 0
           /\ last.event = "none"
           /\ store = last.before

\* C1 witness: a record with a negative sum was refused while the store
\* held a record
C1_Witness ==
    /\ last.op = "addOrUpdate"
    /\ last.data.sum = NumSum(-5)
    /\ last.err = "ValidationError"
    /\ DOMAIN store # {}

\* C2: every record held in the store has sum > 0, a non-empty string
\* category and a date.
C2_StoredRecordsValid ==
    \A k \in DOMAIN store :
        /\ store[k].sum.type = "number"
        /\ ~store[k].sum.num.nan
        /\ store[k].sum.num.n > 0
        /\ store[k].category.type = "string"
        /\ store[k].category.str # ""
        /\ store[k].date.kind # "undefined"

\* C3: once addOrUpdate of a record has resolved and no delete has
\* completed since, a getAll that resolves returns a record with the same
\* date, sum and category and an id the store assigned.
C3_RoundTrip ==
    (last.op = "getAll" /\ last.outcome = "resolved") =>
        \A a \in acked :
            \E i \in DOMAIN last.records :
                /\ last.records[i].date = a.date
                /\ last.records[i].sum = a.sum
                /\ last.records[i].category = a.category
                /\ last.records[i].id \in 1..keyGen

\* C3 witness: getAll resolved after two acknowledged upserts
C3_Witness ==
    /\ last.op = "getAll"
    /\ last.outcome = "resolved"
    /\ Cardinality(acked) = 2

\* C4: a delete that the host serves resolves, removes the record under
\* the given key and leaves every other record as it was; with no record
\* under that key the store is unchanged.
C4_DeleteExact ==
    (last.op = "delete" /\ last.event = "success") =>
        /\ last.outcome = "resolved"
        /\ DOMAIN store = DOMAIN last.before \ {last.key}
        /\ \A k \in DOMAIN store : store[k] = last.before[k]
        /\ (last.key \notin DOMAIN last.before => store = last.before)

\* C4 witness: one of two records was deleted
C4_Witness ==
    /\ last.op = "delete"
    /\ last.outcome = "resolved"
    /\ last.key \in DOMAIN last.before
    /\ DOMAIN store # {}

\* C7: open runs the upgrade routine only when the requested version is
\* above the stored one, and then before it resolves; resolved, the handle
\* is cached; rejected, the error is an OpenError and this.db is what it was.
C7_Open ==
    last.op = "open" =>
        /\ last.upgraded => version > last.oldVersion
        /\ (last.outcome = "resolved" /\ version > last.oldVersion
                /\ upgradeCallback) => last.upgraded
        /\ last.outcome = "resolved" => db
        /\ last.outcome = "rejected" =>
               (last.err = "OpenError" /\ db = last.dbBefore)

\* C7 witness: an open of version 2 upgraded the database from version 1
C7_Witness ==
    /\ last.op = "open"
    /\ last.outcome = "resolved"
    /\ last.upgraded
    /\ last.oldVersion = 1
    /\ hostVersion = 2

\* C8: a store call issues one host request at most; when the host reports
\* an error the call rejects with a StoreError and no request is issued
\* again; a report rejects with the error of its getAll.
C8_SingleExchange ==
    /\ \A i \in DOMAIN pending : pending[i].attempt = 1
    /\ last.reqs <= 1
    /\ (last.op \in StoreOps /\ last.event = "error") =>
           /\ last.outcome = "rejected"
           /\ last.err = "StoreError"
           /\ last.reqs = 1
    /\ (last.op \in {"getAll", "getYearlyReport", "getMonthlyReport"}
            /\ last.event = "error") =>
           last.msg = "Failed to fetch records"

\* C8 witness: a yearly report rejected with the error of its getAll
C8_Witness ==
    /\ last.op = "getYearlyReport"
    /\ last.event = "error"
    /\ last.outcome = "rejected"

----------------------------------------------------------------------------
(* Claims about the reports *)

\* the record's date falls in the calendar year, and in the calendar month
InYearOf(record, year) == record.date.kind = "date" /\ record.date.y = year
InMonthOf(record, month, year) ==
    InYearOf(record, year) /\ record.date.m = month

RECURSIVE SumOf(_)
SumOf(records) ==
    IF records = <<>> THEN Num(0)
    ELSE Add(Head(records).sum.num, SumOf(Tail(records)))

\* report is the Report of the records `matching`: one entry for each of
\* their categories, holding the records of the category in their order and
\* the sum of their sums
IsReportOf(report, matching) ==
    /\ {report[i].category : i \in DOMAIN report}
           = {matching[i].category.str : i \in DOMAIN matching}
    /\ \A i, j \in DOMAIN report :
           report[i].category = report[j].category => i = j
    /\ \A i \in DOMAIN report :
           LET InCategory(record) == record.category.str = report[i].category
               items == SelectSeq(matching, InCategory)
           IN  /\ report[i].items = items
               /\ report[i].totalSum = SumOf(items)

\* C5: on a store that is not empty, getYearlyReport returns the Report of
\* the stored records of that calendar year, in store order.
C5_YearlyReport ==
    (last.op = "getYearlyReport" /\ last.event = "success"
        /\ DOMAIN last.before # {}) =>
        LET InYear(record) == InYearOf(record, last.year)
        IN  /\ last.outcome = "resolved"
            /\ last.result.kind = "report"
            /\ IsReportOf(last.result.report,
                          SelectSeq(HostGetAll(last.before), InYear))

\* C6: getMonthlyReport returns the "no records" message exactly when no
\* stored record is of that month and year, and else the Report of the
\* stored records of that month and year.
C6_MonthlyReport ==
    (last.op = "getMonthlyReport" /\ last.event = "success") =>
        LET InMonth(record) == InMonthOf(record, last.month, last.year)
            matching == SelectSeq(HostGetAll(last.before), InMonth)
        IN  /\ last.outcome = "resolved"
            /\ (last.result.kind = "message") = (matching = <<>>)
            /\ matching # <<>> =>
                   /\ last.result.kind = "report"
                   /\ IsReportOf(last.result.report, matching)

\* C9: getYearlyReport returns the "no records" message if and only if the
\* store is empty; on a store that is not empty and holds no record of the
\* year it returns a Report with no category.
C9_YearlyMessage ==
    (last.op = "getYearlyReport" /\ last.event = "success") =>
        /\ (last.outcome = "resolved" /\ last.result.kind = "message")
               = (DOMAIN last.before = {})
        /\ (/\ DOMAIN last.before # {}
            /\ \A k \in DOMAIN last.before :
                   ~InYearOf(last.before[k], last.year)) =>
               /\ last.outcome = "resolved"
               /\ last.result.kind = "report"
               /\ last.result.report = <<>>

\* C9 witness: a store holding only records of 2023, asked for 2022
C9_Witness ==
    /\ last.op = "getYearlyReport"
    /\ last.outcome = "resolved"
    /\ last.year = 2022
    /\ DOMAIN last.before # {}
    /\ \A k \in DOMAIN last.before : InYearOf(last.before[k], 2023)
    /\ last.result.report = <<>>

============================================================================
